---- MODULE Spec2Model ----
(***************************************************************************)
(* Model of the computer-use agent's core: the typed data model            *)
(* (src/src/data_model.py), the plan builder (src/src/task_planner.py) and *)
(* the grounding pipeline (src/src/vision_output_processor.py).            *)
(*                                                                         *)
(* Conventions.  An optional value is a sequence of length 0 or 1.  A      *)
(* float is carried in tenths (0.9 is 9, 1.0 is 10).  An enum member is    *)
(* the record [enum, name]; its wire form is the member's value string.    *)
(***************************************************************************)
EXTENDS Integers, Sequences, FiniteSets, TLC

None == <<>>
Some(x) == <<x>>
IsSome(o) == Len(o) = 1
Get(o) == o[1]

Range(s) == {s[i] : i \in 1..Len(s)}

(***************************************************************************)
(* Bounds of the model.                                                    *)
(***************************************************************************)
MaxGoalLen == 3

(***************************************************************************)
(* data_model.py: the closed vocabularies, members in declaration order.   *)
(***************************************************************************)
M(n, v) == [name |-> n, value |-> v]

\* Mutant: MouseAction given a member whose value SystemAction already uses.
MouseAction_overlapping ==
    << M("LEFT_CLICK", "left_click"), M("RIGHT_CLICK", "right_click"),
       M("DOUBLE_CLICK", "double_click"), M("DRAG", "drag"),
       M("DROP", "drop"), M("HOVER", "hover"), M("SCROLL", "scroll") >>

MouseAction ==
    << M("LEFT_CLICK", "left_click"), M("RIGHT_CLICK", "right_click"),
       M("DOUBLE_CLICK", "double_click"), M("DRAG", "drag"),
       M("DROP", "drop"), M("HOVER", "hover") >>

KeyboardAction ==
    << M("TYPE", "type"), M("HOTKEY", "hotkey"), M("PRESS", "press"),
       M("RELEASE", "release"), M("CTRL_LEFT", "ctrl_left"),
       M("ALT_TAB", "alt_tab"), M("WINDOWS", "windows"), M("ESC", "escape") >>

SystemAction ==
    << M("WAIT", "wait"), M("VERIFY", "verify"), M("SCROLL", "scroll"),
       M("SCREENSHOT", "screenshot") >>

ValidationStatus ==
    << M("PENDING", "pending"), M("SUCCESS", "success"),
       M("FAILED", "failed"), M("RETRY", "retry") >>

UIElementType ==
    << M("WINDOW", "window"), M("TERMINAL", "terminal"), M("ICON", "icon"),
       M("TASKBAR", "taskbar"), M("SEARCH_BAR", "search_bar"),
       M("TEXT_INPUT", "text_input"), M("BUTTON", "button"),
       M("MENU_ITEM", "menu_item"), M("MENU_BAR", "menu_bar") >>

\* The enum classes by name.
EnumNamed(e) ==
    CASE e = "MouseAction" -> MouseAction
      [] e = "KeyboardAction" -> KeyboardAction
      [] e = "SystemAction" -> SystemAction
      [] e = "ValidationStatus" -> ValidationStatus
      [] e = "UIElementType" -> UIElementType

\* ActionType = Union[MouseAction, KeyboardAction, SystemAction], in order.
ActionType == << "MouseAction", "KeyboardAction", "SystemAction" >>

Values(enum) == {enum[i].value : i \in 1..Len(enum)}
Names(enum) == {enum[i].name : i \in 1..Len(enum)}

\* Enum attribute access Enum.NAME: defined iff NAME is a member.
HasMember(e, n) == n \in Names(EnumNamed(e))

\* Enum(value): the first member carrying the value.
ByValue(e, v) ==
    LET enum == EnumNamed(e)
        i == CHOOSE k \in 1..Len(enum) :
                 /\ enum[k].value = v
                 /\ \A j \in 1..(k - 1) : enum[j].value # v
    IN [enum |-> e, name |-> enum[i].name]

\* member.value
ValueOf(m) ==
    LET enum == EnumNamed(m.enum)
        i == CHOOSE k \in 1..Len(enum) : enum[k].name = m.name
    IN enum[i].value

\* Validation of a wire string against a union of enums: the leftmost enum
\* of the union that has the value decides the member.
InUnion(union, v) == \E i \in 1..Len(union) : v \in Values(EnumNamed(union[i]))

DecodeUnion(union, v) ==
    LET i == CHOOSE k \in 1..Len(union) :
                 /\ v \in Values(EnumNamed(union[k]))
                 /\ \A j \in 1..(k - 1) : v \notin Values(EnumNamed(union[j]))
    IN ByValue(union[i], v)

(***************************************************************************)
(* data_model.py: the entities of a plan and their validation, as pydantic *)
(* applies it to a wire document.  A wire action is                        *)
(*   [action_type, element_type, confidence_required, input_data,          *)
(*    validation_result, retry_strategy],                                  *)
(* a wire task [task_id, actions, dependencies, validation_status] and a   *)
(* wire plan [wf, goal, tasks, current_task_index, status]; wf is whether  *)
(* the text is well-formed JSON.  Fields with a default are optional on    *)
(* the wire.  A retry_strategy (Dict) is a set of <<key, number>> pairs.   *)
(* The description strings (required, unconstrained) are present in every  *)
(* document and carry no condition, so they are left out.                  *)
(***************************************************************************)
Pending == [enum |-> "ValidationStatus", name |-> "PENDING"]

\* class UIElement: element_type in the vocabulary, confidence_required
\* within [0, 1.0], default 0.6.
UIElement_valid(w) ==
    /\ w.element_type \in Values(UIElementType)
    /\ IsSome(w.confidence_required) =>
           (Get(w.confidence_required) >= 0 /\ Get(w.confidence_required) <= 10)

UIElement(w) ==
    [element_type |-> ByValue("UIElementType", w.element_type),
     confidence_required |->
         IF IsSome(w.confidence_required) THEN Get(w.confidence_required) ELSE 6]

\* class ValidationResult: status in the vocabulary; retry_count and
\* max_retries are plain ints with defaults 0 and 3.
ValidationResult_valid(o) ==
    IsSome(o) => Get(o).status \in Values(ValidationStatus)

ValidationResult(o) ==
    IF IsSome(o)
    THEN [status |-> ByValue("ValidationStatus", Get(o).status),
          retry_count |-> Get(o).retry_count,
          max_retries |-> Get(o).max_retries]
    ELSE [status |-> Pending, retry_count |-> 0, max_retries |-> 3]

\* class TaskAction: action_type in the ActionType union; retry_strategy is
\* an unconstrained Dict with a default.
TaskAction_valid(w) ==
    /\ InUnion(ActionType, w.action_type)
    /\ UIElement_valid(w)
    /\ ValidationResult_valid(w.validation_result)

TaskAction(w) ==
    [action_type |-> DecodeUnion(ActionType, w.action_type),
     target_element |-> UIElement(w),
     input_data |-> w.input_data,
     validation_result |-> ValidationResult(w.validation_result),
     retry_strategy |->
         IF IsSome(w.retry_strategy) THEN Get(w.retry_strategy)
         ELSE {<<"max_attempts", 3>>, <<"delay_between_attempts", 10>>}]

\* class Task: dependencies is a plain List[str]; validation_status
\* defaults to PENDING.
Task_valid(w) ==
    /\ \A i \in 1..Len(w.actions) : TaskAction_valid(w.actions[i])
    /\ IsSome(w.validation_status) =>
           Get(w.validation_status) \in Values(ValidationStatus)

Task(w) ==
    [task_id |-> w.task_id,
     actions |-> [i \in 1..Len(w.actions) |-> TaskAction(w.actions[i])],
     dependencies |-> w.dependencies,
     validation_status |->
         IF IsSome(w.validation_status)
         THEN ByValue("ValidationStatus", Get(w.validation_status))
         ELSE Pending]

\* class TaskPlan: goal and tasks are required; current_task_index is a
\* plain int defaulting to 0; status defaults to PENDING.
TaskPlan_valid(w) ==
    /\ w.wf
    /\ IsSome(w.goal)
    /\ \A i \in 1..Len(w.tasks) : Task_valid(w.tasks[i])
    /\ IsSome(w.status) => Get(w.status) \in Values(ValidationStatus)

TaskPlan(w) ==
    [goal |-> Get(w.goal),
     tasks |-> [i \in 1..Len(w.tasks) |-> Task(w.tasks[i])],
     current_task_index |->
         IF IsSome(w.current_task_index) THEN Get(w.current_task_index) ELSE 0,
     status |->
         IF IsSome(w.status) THEN ByValue("ValidationStatus", Get(w.status))
         ELSE Pending]

\* Mutant: a document that fails validation yields a plan of default values.
model_validate_json_defaulting(w) ==
    IF TaskPlan_valid(w) THEN Some(TaskPlan(w))
    ELSE Some([goal |-> "", tasks |-> <<>>, current_task_index |-> 0,
               status |-> Pending])

\* TaskPlan.model_validate_json(text): the plan, or no plan when pydantic
\* raises its validation error.
model_validate_json(w) == IF TaskPlan_valid(w) THEN Some(TaskPlan(w)) ELSE None

\* plan.model_dump_json(): every field written, each enum member as its
\* value string.
TaskAction_dump(a) ==
    [action_type |-> ValueOf(a.action_type),
     element_type |-> ValueOf(a.target_element.element_type),
     confidence_required |-> Some(a.target_element.confidence_required),
     input_data |-> a.input_data,
     validation_result |->
         Some([status |-> ValueOf(a.validation_result.status),
               retry_count |-> a.validation_result.retry_count,
               max_retries |-> a.validation_result.max_retries]),
     retry_strategy |-> Some(a.retry_strategy)]

Task_dump(t) ==
    [task_id |-> t.task_id,
     actions |-> [i \in 1..Len(t.actions) |-> TaskAction_dump(t.actions[i])],
     dependencies |-> t.dependencies,
     validation_status |-> Some(ValueOf(t.validation_status))]

model_dump_json(p) ==
    [wf |-> TRUE,
     goal |-> Some(p.goal),
     tasks |-> [i \in 1..Len(p.tasks) |-> Task_dump(p.tasks[i])],
     current_task_index |-> Some(p.current_task_index),
     status |-> Some(ValueOf(p.status))]


(***************************************************************************)
(* task_planner.py: create_task_planner.planner.  A goal is a sequence of  *)
(* characters; the collaborator is given by what its one completion call   *)
(* does: raise, or answer with a document.                                 *)
(***************************************************************************)
Whitespace == {" "}
Chars == {" ", "a"}

SeqsUpTo(S, n) == UNION {[1..k -> S] : k \in 0..n}

\* str.strip()
Strip(s) ==
    LET keep == {i \in 1..Len(s) : s[i] \notin Whitespace}
    IN IF keep = {} THEN <<>>
       ELSE SubSeq(s, CHOOSE i \in keep : \A j \in keep : i <= j,
                      CHOOSE i \in keep : \A j \in keep : i >= j)

Exception(t, m) == [type |-> t, msg |-> m]
Return(v, n) == [returned |-> Some(v), raised |-> None, calls |-> n]
Raise(e, n) == [returned |-> None, raised |-> Some(e), calls |-> n]

\* The enum attributes the f-string SYSTEM_PROMPT evaluates, in order.
SYSTEM_PROMPT_refs ==
    << <<"KeyboardAction", "CTRL_LEFT">>, <<"UIElementType", "GENERIC">>,
       <<"ValidationStatus", "PENDING">>, <<"MouseAction", "DOUBLE_CLICK">>,
       <<"UIElementType", "ICON">>, <<"MouseAction", "LEFT_CLICK">>,
       <<"UIElementType", "SEARCH_BAR">>, <<"KeyboardAction", "TYPE">> >>

\* Formatting SYSTEM_PROMPT: the prompt for the query, or the
\* AttributeError of the first attribute that is no member of its enum.
SYSTEM_PROMPT(USER_QUERY) ==
    LET bad == {i \in 1..Len(SYSTEM_PROMPT_refs) :
                   ~HasMember(SYSTEM_PROMPT_refs[i][1], SYSTEM_PROMPT_refs[i][2])}
    IN IF bad = {} THEN Return(USER_QUERY, 0)
       ELSE Raise(Exception("AttributeError",
                    <<SYSTEM_PROMPT_refs[CHOOSE i \in bad : \A j \in bad : i <= j][2]>>), 0)

\* The inner try: return the validated plan, or raise ValueError.
planner_validate(content) ==
    LET v == model_validate_json(content)
    IN IF IsSome(v) THEN Return(Get(v), 0)
       ELSE Raise(Exception("ValueError",
                    <<"Failed to parse GPT response into TaskPlan">>), 0)

\* Mutant: the completion call is made again after a failure.
planner_try_retry(complete) ==
    IF complete.raises
    THEN Raise(Exception("RuntimeError",
                 <<"Failed to generate task plan", "provider failure">>), 2)
    ELSE LET r == planner_validate(complete.content)
         IN IF IsSome(r.raised)
            THEN Raise(Exception("RuntimeError",
                         <<"Failed to generate task plan">> \o Get(r.raised).msg), 2)
            ELSE Return(Get(r.returned), 1)

\* The outer try: one completion call; every Exception raised inside it,
\* the inner ValueError included, is re-raised as RuntimeError.
planner_try(complete) ==
    IF complete.raises
    THEN Raise(Exception("RuntimeError",
                 <<"Failed to generate task plan", "provider failure">>), 1)
    ELSE LET r == planner_validate(complete.content)
         IN IF IsSome(r.raised)
            THEN Raise(Exception("RuntimeError",
                         <<"Failed to generate task plan">> \o Get(r.raised).msg), 1)
            ELSE Return(Get(r.returned), 1)

\* Mutant: only the empty goal is rejected, a blank one is not.
planner_unstripped(goal, complete) ==
    IF goal = <<>>
    THEN Raise(Exception("ValueError", <<"Goal cannot be empty">>), 0)
    ELSE LET prompt == SYSTEM_PROMPT(Strip(goal))
         IN IF IsSome(prompt.raised) THEN prompt ELSE planner_try(complete)

planner(goal, complete) ==
    IF goal = <<>> \/ Strip(goal) = <<>>
    THEN Raise(Exception("ValueError", <<"Goal cannot be empty">>), 0)
    ELSE LET prompt == SYSTEM_PROMPT(Strip(goal))
         IN IF IsSome(prompt.raised) THEN prompt ELSE planner_try(complete)

(***************************************************************************)
(* The goals and collaborator answers the planner is exercised with.       *)
(***************************************************************************)
Goals == SeqsUpTo(Chars, MaxGoalLen)

WireAction(at, et, cr, vr, rs) ==
    [action_type |-> at, element_type |-> et, confidence_required |-> cr,
     input_data |-> None, validation_result |-> vr, retry_strategy |-> rs]

TypeAction ==
    [action_type |-> "type", element_type |-> "search_bar",
     confidence_required |-> None, input_data |-> Some("query"),
     validation_result |-> None, retry_strategy |-> None]

PlanDoc(at, et, idx, st, deps, vr, rs) ==
    [wf |-> TRUE,
     goal |-> Some("Search Google"),
     tasks |-> << [task_id |-> "launch_chrome",
                   actions |-> <<WireAction(at, et, Some(8), vr, rs)>>,
                   dependencies |-> <<>>,
                   validation_status |-> None],
                  [task_id |-> "perform_search",
                   actions |-> <<TypeAction>>,
                   dependencies |-> deps,
                   validation_status |-> Some("pending")] >>,
     current_task_index |-> idx,
     status |-> st]

NotJson ==
    [wf |-> FALSE, goal |-> None, tasks |-> <<>>,
     current_task_index |-> None, status |-> None]

MalformedDocs ==
    { NotJson,
      [NotJson EXCEPT !.wf = TRUE],
      [PlanDoc("left_click", "window", None, None, <<>>, None, None)
          EXCEPT !.tasks[1].actions[1].confidence_required = Some(12)] }

WireValidationResults ==
    { None,
      Some([status |-> "pending", retry_count |-> 0, max_retries |-> 3]),
      Some([status |-> "retry", retry_count |-> 5, max_retries |-> 3]),
      Some([status |-> "done", retry_count |-> 0, max_retries |-> 3]) }

WireRetryStrategies ==
    { None,
      Some({<<"max_attempts", 2>>, <<"delay_between_attempts", 10>>}),
      Some({<<"max_attempts", 0>>, <<"delay_between_attempts", 0>>}),
      Some({}) }

PlanDocs ==
    { PlanDoc(at, et, idx, st, deps, vr, rs) :
        at \in {"left_click", "type", "scroll", "enter"},
        et \in {"window", "generic"},
        idx \in {None, Some(0), Some(2)},
        st \in {None, Some("pending"), Some("success")},
        deps \in {<<>>, <<"launch_chrome">>, <<"open_browser">>},
        vr \in WireValidationResults,
        rs \in WireRetryStrategies }
    \cup MalformedDocs

Completions ==
    {[raises |-> TRUE, content |-> NotJson]}
    \cup {[raises |-> FALSE, content |-> d] : d \in PlanDocs}

\* Plans built in Python from the model classes: any member of the three
\* action enums may be an action's action_type.
ActionMembers ==
    UNION {{[enum |-> ActionType[k], name |-> n] : n \in Names(EnumNamed(ActionType[k]))} :
              k \in 1..Len(ActionType)}

Plans ==
    { [TaskPlan(d) EXCEPT !.tasks[1].actions[1].action_type = m] :
        d \in {x \in PlanDocs : TaskPlan_valid(x)}, m \in ActionMembers }


(***************************************************************************)
(* vision_output_processor.py: what the collaborator may answer in Stage B *)
(* (convert).  A response text is a sequence of tokens: the fence marker,  *)
(* a language tag, a newline, a space, prose, or a whole JSON document     *)
(* given by name.  A parsed document is [isdict, haskey, islist, elements];*)
(* an entry of "elements" carries each of its keys optionally.             *)
(***************************************************************************)
MaxShots == 2

FENCE == "<fence>"
NL == "<newline>"
SP == " "

Entry(et, conf, acts) ==
    [element |-> Some([element_type |-> et, description |-> Some("described")]),
     confidence |-> Some(conf),
     possible_actions |-> Some(acts),
     bounding_box |-> Some(None)]

Doc(entries) ==
    [isdict |-> TRUE, haskey |-> TRUE, islist |-> TRUE, elements |-> entries]

JsonDocNames ==
    {"two", "one", "bad_type", "bad_action", "no_box", "empty", "over_confident",
     "array", "no_elements_key"}

\* The JSON value each document token stands for.
JsonDoc(name) ==
    CASE name = "two" ->
            Doc(<<Entry("search_bar", 7, <<"left_click", "type">>),
                  Entry("window", 9, <<"left_click">>)>>)
      [] name = "one" ->
            Doc(<<[Entry("button", 8, <<"double_click", "scroll">>)
                      EXCEPT !.bounding_box = Some(Some(<<0, 0, 40, 40>>))]>>)
      [] name = "bad_type" ->
            Doc(<<Entry("window", 9, <<"left_click">>),
                  Entry("generic", 8, <<"left_click">>)>>)
      [] name = "bad_action" ->
            Doc(<<Entry("text_input", 8, <<"type", "enter">>),
                  Entry("button", 7, <<"left_click">>)>>)
      [] name = "no_box" ->
            Doc(<<Entry("window", 9, <<"left_click">>),
                  [Entry("button", 8, <<"left_click">>) EXCEPT !.bounding_box = None]>>)
      [] name = "empty" -> Doc(<<>>)
      [] name = "over_confident" -> Doc(<<Entry("button", 15, <<"left_click">>)>>)
      [] name = "array" -> [Doc(<<>>) EXCEPT !.isdict = FALSE, !.haskey = FALSE]
      [] name = "no_elements_key" -> [Doc(<<>>) EXCEPT !.haskey = FALSE]

\* Fenced responses: tag and newlines; no tag; everything on one line; the
\* document on the line of the opening fence.
FencedTexts ==
    { <<FENCE, "json", NL, "two", NL, FENCE>>,
      <<FENCE, NL, "one", NL, FENCE>>,
      <<FENCE, "two", FENCE>>,
      <<FENCE, "json", SP, "one", NL, FENCE>> }

ConvertTexts ==
    {<<d>> : d \in JsonDocNames}
    \cup FencedTexts
    \cup { <<"Here is the JSON:", NL, "one">> }

CondenseTexts == {<<"- Element: itemization">>}

\* CONVERT_PROMPT: the target values of the ELEMENT TYPE MAPPING RULES and
\* of the ACTION MAPPING RULES.
CONVERT_PROMPT_element_rules ==
    {"text_input", "menu_bar", "icon", "window", "button", "search_bar"}

CONVERT_PROMPT_action_rules ==
    {"left_click", "right_click", "double_click", "type", "enter", "backspace"}

(***************************************************************************)
(* vision_output_processor.py: process_outputs, the parsing of one Stage B *)
(* response and the assignment onto the screenshot.                        *)
(***************************************************************************)
JsonWhitespace == {NL, SP}

\* str.strip() on a token sequence.
StripTokens(s) ==
    LET keep == {i \in 1..Len(s) : s[i] \notin JsonWhitespace}
    IN IF keep = {} THEN <<>>
       ELSE SubSeq(s, CHOOSE i \in keep : \A j \in keep : i <= j,
                      CHOOSE i \in keep : \A j \in keep : i >= j)

\* str.find / str.rfind of a token, 0-based, -1 when absent.
Find(s, t) ==
    LET at == {i \in 1..Len(s) : s[i] = t}
    IN IF at = {} THEN -1 ELSE (CHOOSE i \in at : \A j \in at : i <= j) - 1

RFind(s, t) ==
    LET at == {i \in 1..Len(s) : s[i] = t}
    IN IF at = {} THEN -1 ELSE (CHOOSE i \in at : \A j \in at : i >= j) - 1

\* s[start:end] for 0 <= start and 0 <= end.
Slice(s, start, end) == SubSeq(s, start + 1, end)

\* Lines 188-193: strip the markdown code block markers if present.
strip_fence(json_content) ==
    IF Len(json_content) > 0 /\ json_content[1] = FENCE
    THEN StripTokens(Slice(json_content, Find(json_content, NL) + 1,
                           RFind(json_content, FENCE)))
    ELSE json_content

\* json.loads: one JSON value, surrounding whitespace allowed; no value
\* (JSONDecodeError) otherwise.
json_loads(text) ==
    LET t == StripTokens(text)
    IN IF Len(t) = 1 /\ t[1] \in JsonDocNames THEN Some(JsonDoc(t[1])) ELSE None

\* The DetectedElement built from entry e, whose keys element, confidence,
\* possible_actions and bounding_box are each subscripted: whether the
\* construction succeeds.  confidence is an unconstrained float.
DetectedElement_valid(e) ==
    /\ IsSome(e.element)
    /\ Get(e.element).element_type \in Values(UIElementType)
    /\ IsSome(Get(e.element).description)
    /\ IsSome(e.confidence)
    /\ IsSome(e.possible_actions)
    /\ \A i \in 1..Len(Get(e.possible_actions)) :
           InUnion(ActionType, Get(e.possible_actions)[i])
    /\ IsSome(e.bounding_box)
    /\ IsSome(Get(e.bounding_box)) => Len(Get(Get(e.bounding_box))) = 4

DetectedElement(e) ==
    [element |-> [element_type |-> ByValue("UIElementType", Get(e.element).element_type),
                  description |-> Get(Get(e.element).description),
                  confidence_required |-> 6],
     confidence |-> Get(e.confidence),
     possible_actions |->
         [i \in 1..Len(Get(e.possible_actions)) |->
             DecodeUnion(ActionType, Get(e.possible_actions)[i])],
     bounding_box |-> Get(e.bounding_box)]

MaxOf(S) == CHOOSE x \in S : \A y \in S : x >= y

\* Lines 199-208: the list comprehension over elements_dict["elements"];
\* any entry whose construction raises aborts the whole comprehension.
detected_elements(doc) ==
    IF doc.islist /\ \A i \in 1..Len(doc.elements) : DetectedElement_valid(doc.elements[i])
    THEN Some([i \in 1..Len(doc.elements) |-> DetectedElement(doc.elements[i])])
    ELSE None

\* Mutant: total_count is written after max() instead of before it.
assign_elements_count_last(detected, new) ==
    IF new = <<>> THEN [detected EXCEPT !.elements = new]
    ELSE [detected EXCEPT !.elements = new, !.total_count = Len(new),
                          !.highest_confidence =
                              MaxOf({new[i].confidence : i \in 1..Len(new)})]

\* Mutant: the new elements are appended to the ones already attached.
assign_elements_merging(detected, new) ==
    LET all == detected.elements \o new
    IN IF new = <<>> THEN detected
       ELSE [detected EXCEPT !.elements = all, !.total_count = Len(all),
                             !.highest_confidence =
                                 MaxOf({all[i].confidence : i \in 1..Len(all)})]

\* Lines 218-227: the assignments onto result.detected, in order; max() of
\* an empty list raises after elements and total_count are written.
assign_elements(detected, new) ==
    LET d1 == [detected EXCEPT !.elements = new, !.total_count = Len(new)]
    IN IF new = <<>> THEN d1
       ELSE [d1 EXCEPT !.highest_confidence =
                          MaxOf({new[i].confidence : i \in 1..Len(new)})]

\* Mutant: an unusable top-level document clears the screenshot.
convert_response_clearing(detected, content) ==
    LET parsed == json_loads(strip_fence(content))
        cleared == [detected EXCEPT !.elements = <<>>, !.total_count = 0,
                                    !.highest_confidence = 0]
    IN IF ~IsSome(parsed) THEN cleared
       ELSE IF ~(Get(parsed).isdict /\ Get(parsed).haskey) THEN cleared
       ELSE LET new == detected_elements(Get(parsed))
            IN IF IsSome(new) THEN assign_elements(detected, Get(new)) ELSE detected

\* Mutant: a parsed response consumes the screenshot's raw text.
convert_response_consuming(detected, content) ==
    LET parsed == json_loads(strip_fence(content))
    IN IF ~IsSome(parsed) THEN detected
       ELSE IF ~(Get(parsed).isdict /\ Get(parsed).haskey) THEN detected
       ELSE LET new == detected_elements(Get(parsed))
            IN IF IsSome(new)
               THEN [assign_elements(detected, Get(new)) EXCEPT !.raw_output = None]
               ELSE detected

\* Lines 186-240: the inner try of the convert loop for one response text;
\* every exception leaves result.detected as it is at that point.
convert_response(detected, content) ==
    LET parsed == json_loads(strip_fence(content))
    IN IF ~IsSome(parsed) THEN detected
       ELSE IF ~(Get(parsed).isdict /\ Get(parsed).haskey) THEN detected
       ELSE LET new == detected_elements(Get(parsed))
            IN IF IsSome(new) THEN assign_elements(detected, Get(new)) ELSE detected


(***************************************************************************)
(* State.                                                                  *)
(*   planRun      the last planner invocation: goal, collaborator, result  *)
(*   decoded      the last TaskPlan.model_validate_json: document, plan    *)
(*   roundtrip    the last dump-and-validate of a plan                     *)
(*   grounded     the last parse of one Stage B response onto one          *)
(*                screenshot's detected elements                           *)
(*   vision_outputs  the list of ScreenshotResult handed to                *)
(*                process_outputs, mutated in place                        *)
(*   task_plan    the task_plan argument of the running invocation         *)
(*   pc, idx      where process_outputs is: which loop, which screenshot   *)
(*   condensed_elements  the list the condense loop appends to             *)
(*   log          the collaborator calls of the running invocation         *)
(*   input        vision_outputs as it was when the invocation began       *)
(*   outcome      how the invocation ended, once it has                    *)
(*   prev         the collaborator calls of the invocation before the      *)
(*                running one, when process_outputs is invoked again on    *)
(*                the list it returned                                     *)
(*   captures     the calls of screenshot_fn so far, each with its result  *)
(*   current_context  per mock agent, the "index" cell of its closure      *)
(*   mock_log     the calls of mock agents so far, each with the context   *)
(*                it returned                                              *)
(***************************************************************************)
VARIABLES planRun, decoded, roundtrip, grounded, vision_outputs, task_plan, pc, idx,
          condensed_elements, log, input, outcome, prev, captures,
          current_context, mock_log

planVars == <<planRun, decoded, roundtrip, grounded>>
pipeVars == <<vision_outputs, task_plan, pc, idx, condensed_elements, log,
              input, outcome, prev>>
agentVars == <<captures, current_context, mock_log>>
vars == <<planRun, decoded, roundtrip, grounded, vision_outputs, task_plan, pc, idx,
          condensed_elements, log, input, outcome, prev, captures,
          current_context, mock_log>>

(***************************************************************************)
(* The screenshots process_outputs is exercised with: as screenshot_fn     *)
(* leaves them (no elements; raw text or none) and as a caller or the mock *)
(* agent builds them, or an earlier invocation left them (elements already *)
(* attached).                                                              *)
(***************************************************************************)
PresetElement == DetectedElement(Entry("terminal", 9, <<"type">>))

DetectedElements(elements, raw) ==
    [elements |-> elements,
     total_count |-> Len(elements),
     highest_confidence |->
         IF elements = <<>> THEN 0
         ELSE MaxOf({elements[i].confidence : i \in 1..Len(elements)}),
     raw_output |-> raw]

ScreenshotResult(path, raw, preset) ==
    [metadata |-> [path |-> path],
     detected |-> DetectedElements(IF preset THEN <<PresetElement>> ELSE <<>>, raw),
     validation_status |->
         IF preset THEN [enum |-> "ValidationStatus", name |-> "SUCCESS"] ELSE Pending,
     analysis_complete |-> preset]

\* <<raw_output, whether elements are attached already>>
ShotKinds ==
    { <<None, FALSE>>, <<Some(""), TRUE>>,
      <<Some("A window with a search box"), FALSE>>,
      <<Some("A window with a search box"), TRUE>> }

ShotLists ==
    UNION { { [i \in 1..n |-> ScreenshotResult(i, f[i][1], f[i][2])] :
                f \in [1..n -> ShotKinds] } : n \in 0..MaxShots }

\* What a screenshot with raw text holds before its Stage B response is
\* parsed.
DetectedBefore ==
    { ScreenshotResult(1, k[1], k[2]).detected : k \in {x \in ShotKinds : x[1] # None} }

\* The lists and Stage B responses of repeated invocations.
MaxRerunShots == 1

RerunLists ==
    UNION { { [i \in 1..n |-> ScreenshotResult(i, f[i][1], f[i][2])] :
                f \in [1..n -> ShotKinds] } : n \in 0..MaxRerunShots }

RerunTexts == { <<"two">>, <<"one">>, <<"empty">>, <<"bad_type">> }

PipelinePlans ==
    { TaskPlan(PlanDoc("left_click", "window", None, None, <<>>, None, None)),
      TaskPlan(PlanDoc("type", "window", None, None, <<"launch_chrome">>, None, None)) }

\* Mutant: raw_output is tested against None only, so "" counts as text.
HasRaw_not_none(result) == IsSome(result.detected.raw_output)

\* Truthiness of result.detected.raw_output: neither None nor "".
HasRaw(result) ==
    IsSome(result.detected.raw_output) /\ Get(result.detected.raw_output) # ""

\* Mutant: the outer except returns an empty list.
except_return_nothing(outputs) == <<>>

\* Mutant: the outer except returns the screenshots without their elements.
except_return_cleared(outputs) ==
    [i \in 1..Len(outputs) |->
        [outputs[i] EXCEPT !.detected.elements = <<>>,
                           !.detected.total_count = 0,
                           !.detected.highest_confidence = 0]]

\* Lines 256-258: the outer except logs and returns vision_outputs.
except_return(outputs) == outputs

\* Mutant: the request is built from the task plan.
messages_with_plan(stage, result, plan) ==
    [system |-> "GROUNDING_PROMPT",
     user |-> ValueOf(plan.tasks[1].actions[1].action_type)]

\* The messages of a request: the stage's prompt as system content, the
\* screenshot's raw_output as user content.  task_plan is in scope and
\* goes into neither.
messages(stage, result, plan) ==
    [system |-> IF stage = "condense" THEN "CONDENSE_PROMPT" ELSE "CONVERT_PROMPT",
     user |-> Get(result.detected.raw_output)]

Call(stage, system, shot, user, raises, reply) ==
    [stage |-> stage, system |-> system, shot |-> shot, user |-> user,
     raises |-> raises, reply |-> reply]

(***************************************************************************)
(* screenshot_vision_agent.py: create_screenshot_agent.  A call of         *)
(* screenshot_fn is given by the agent's use_vision flag and by what the   *)
(* environment does: whether Image.open succeeds, whether the image file   *)
(* can be read for encoding, and what the vision collaborator's call does. *)
(***************************************************************************)
MaxCaptures == 2

VisionResponses ==
    { [raises |-> TRUE, content |-> ""],
      [raises |-> FALSE, content |-> "A window with a search box"] }

\* The calls screenshot_fn is exercised with.
Environments ==
    { [use_vision |-> FALSE, opens |-> TRUE, reads |-> TRUE,
       response |-> [raises |-> TRUE, content |-> ""]],
      [use_vision |-> TRUE, opens |-> FALSE, reads |-> FALSE,
       response |-> [raises |-> TRUE, content |-> ""]] }
    \cup { [use_vision |-> TRUE, opens |-> TRUE, reads |-> FALSE, response |-> r] :
              r \in {x \in VisionResponses : x.raises} }
    \cup { [use_vision |-> TRUE, opens |-> TRUE, reads |-> TRUE, response |-> r] :
              r \in VisionResponses }

\* Mutant: a failure of element detection is reported in raw_output.
get_detected_elements_reporting(reads, response) ==
    IF ~reads \/ response.raises
    THEN DetectedElements(<<>>, Some("Error in get_detected_elements"))
    ELSE DetectedElements(<<>>, Some(response.content))

\* get_detected_elements: every exception inside it (reading the file, the
\* collaborator call) ends in `return DetectedElements()`; otherwise the
\* response text is stored as raw_output with no elements.
get_detected_elements(reads, response) ==
    IF ~reads \/ response.raises
    THEN DetectedElements(<<>>, None)
    ELSE DetectedElements(<<>>, Some(response.content))

\* screenshot_fn: a failure of Image.open is re-raised; the result is built
\* from metadata and detected only, the other fields take their defaults.
screenshot_fn(image_path, env) ==
    IF ~env.opens
    THEN Raise(Exception("OSError", <<"cannot open image">>), 0)
    ELSE LET detected == IF env.use_vision
                         THEN get_detected_elements(env.reads, env.response)
                         ELSE DetectedElements(<<>>, None)
         IN Return([metadata |-> [path |-> image_path],
                    detected |-> detected,
                    validation_status |-> Pending,
                    analysis_complete |-> FALSE],
                   IF env.use_vision /\ env.reads THEN 1 ELSE 0)

\* One call of screenshot_fn; a returned result joins the list that is
\* later handed to process_outputs.
Screenshot ==
    /\ pc = "idle"
    /\ Len(captures) < MaxCaptures
    /\ \E env \in Environments :
          LET r == screenshot_fn(Len(captures) + 1, env)
              outputs == IF IsSome(r.returned)
                         THEN Append(vision_outputs, Get(r.returned))
                         ELSE vision_outputs
          IN /\ captures' = Append(captures,
                                   [env |-> env, result |-> r,
                                    slot |-> IF IsSome(r.returned)
                                             THEN Len(outputs) ELSE 0])
             /\ vision_outputs' = outputs
             /\ input' = outputs
    /\ UNCHANGED <<task_plan, pc, idx, condensed_elements, log, outcome, prev,
                   current_context, mock_log, planVars>>

(***************************************************************************)
(* tests/mocks/mock_screenshot_agent.py: create_screenshot_agent(mock).    *)
(* Each agent the factory creates has its own current_context cell.        *)
(***************************************************************************)
MaxMockCalls == 6

MockAgents == {"first", "second"}

NotCreated == -1

contexts == <<"vscode", "desktop", "chrome">>

\* Mutant: the index stops at the last context instead of wrapping.
advance_saturating(index) ==
    IF index + 1 < Len(contexts) THEN index + 1 ELSE index

\* Line 111: (current_context["index"] + 1) % len(contexts)
advance(index) == (index + 1) % Len(contexts)

\* The factory call: a new closure with current_context = {"index": 0}.
CreateAgent ==
    /\ \E a \in MockAgents :
          /\ current_context[a] = NotCreated
          /\ current_context' = [current_context EXCEPT ![a] = 0]
    /\ UNCHANGED <<mock_log, captures, pipeVars, planVars>>

\* mock_screenshot: the context at the index, then the index advances.
MockScreenshot ==
    /\ Len(mock_log) < MaxMockCalls
    /\ \E a \in MockAgents :
          /\ current_context[a] # NotCreated
          /\ mock_log' = Append(mock_log,
                                [agent |-> a,
                                 context |-> contexts[current_context[a] + 1],
                                 analysis_complete |-> TRUE])
          /\ current_context' =
                 [current_context EXCEPT ![a] = advance(current_context[a])]
    /\ UNCHANGED <<captures, pipeVars, planVars>>

(***************************************************************************)
(* Plan builder and data model operations.  They keep no state between     *)
(* calls, so each behaviour applies one of them once to one input.         *)
(***************************************************************************)
NoCallYet ==
    planRun = None /\ decoded = None /\ roundtrip = None /\ grounded = None

Planner ==
    /\ NoCallYet
    /\ \E goal \in Goals, complete \in Completions :
           planRun' = Some([goal |-> goal, complete |-> complete,
                            result |-> planner(goal, complete)])
    /\ decoded' = None
    /\ roundtrip' = None
    /\ grounded' = None
    /\ UNCHANGED <<pipeVars, agentVars>>

ValidateJson ==
    /\ NoCallYet
    /\ \E doc \in PlanDocs :
           decoded' = Some([doc |-> doc, plan |-> model_validate_json(doc)])
    /\ planRun' = None
    /\ roundtrip' = None
    /\ grounded' = None
    /\ UNCHANGED <<pipeVars, agentVars>>

RoundTrip ==
    /\ NoCallYet
    /\ \E plan \in Plans :
           roundtrip' = Some([plan |-> plan,
                              wire |-> model_dump_json(plan),
                              back |-> model_validate_json(model_dump_json(plan))])
    /\ planRun' = None
    /\ decoded' = None
    /\ grounded' = None
    /\ UNCHANGED <<pipeVars, agentVars>>

\* The inner try of the convert loop applied to one response and one
\* screenshot's detected elements.
ConvertResponse ==
    /\ NoCallYet
    /\ \E detected \in DetectedBefore, content \in ConvertTexts :
           grounded' = Some([detected |-> detected, content |-> content,
                             result |-> convert_response(detected, content)])
    /\ planRun' = None
    /\ decoded' = None
    /\ roundtrip' = None
    /\ UNCHANGED <<pipeVars, agentVars>>

(***************************************************************************)
(* process_outputs, one action per loop iteration (each iteration makes at *)
(* most one collaborator call).  Every path out of the function is the     *)
(* return of vision_outputs: at the end of the convert loop, or from the   *)
(* outer except when a collaborator call raises.                           *)
(***************************************************************************)
Enter ==
    /\ \E plan \in PipelinePlans : task_plan' = Some(plan)
    /\ input' = vision_outputs
    /\ log' = <<>>
    /\ condensed_elements' = <<>>
    /\ IF Len(vision_outputs) = 0
       THEN /\ pc' = "returned"
            /\ idx' = 0
            /\ outcome' = Some(Return(vision_outputs, 0))
       ELSE /\ pc' = "condense"
            /\ idx' = 1
            /\ outcome' = None
    /\ UNCHANGED <<vision_outputs, planVars, agentVars>>

Invoke ==
    /\ pc = "idle"
    /\ Enter
    /\ UNCHANGED prev

\* process_outputs called again on the list the last invocation returned.
Reinvoke ==
    /\ pc = "returned"
    /\ Enter
    /\ prev' = Some(log)

\* The end of one iteration of the condense loop.
CondenseAdvance ==
    IF idx < Len(vision_outputs)
    THEN pc' = "condense" /\ idx' = idx + 1
    ELSE pc' = "convert" /\ idx' = 1

CondenseSkip ==
    /\ pc = "condense"
    /\ ~HasRaw(vision_outputs[idx])
    /\ CondenseAdvance
    /\ UNCHANGED <<vision_outputs, task_plan, condensed_elements, log, input,
                   outcome, prev, planVars, agentVars>>

CondenseCall ==
    /\ pc = "condense"
    /\ HasRaw(vision_outputs[idx])
    /\ \E condensed \in CondenseTexts :
           /\ log' = Append(log, Call("condense",
                                      messages("condense", vision_outputs[idx], Get(task_plan)).system,
                                      idx,
                                      messages("condense", vision_outputs[idx], Get(task_plan)).user,
                                      FALSE, condensed))
           /\ condensed_elements' = Append(condensed_elements, condensed)
    /\ CondenseAdvance
    /\ UNCHANGED <<vision_outputs, task_plan, input, outcome, prev, planVars, agentVars>>

CondenseRaise ==
    /\ pc = "condense"
    /\ HasRaw(vision_outputs[idx])
    /\ log' = Append(log, Call("condense",
                               messages("condense", vision_outputs[idx], Get(task_plan)).system,
                               idx,
                               messages("condense", vision_outputs[idx], Get(task_plan)).user,
                               TRUE, <<>>))
    /\ pc' = "returned"
    /\ outcome' = Some(Return(except_return(vision_outputs), Len(log')))
    /\ UNCHANGED <<vision_outputs, task_plan, idx, condensed_elements, input,
                   prev, planVars, agentVars>>

\* The end of one iteration of the convert loop; after the last one the
\* function returns vision_outputs.
ConvertAdvance ==
    IF idx < Len(vision_outputs)
    THEN pc' = "convert" /\ idx' = idx + 1 /\ outcome' = None
    ELSE pc' = "returned" /\ idx' = idx
         /\ outcome' = Some(Return(vision_outputs', Len(log')))

ConvertSkip ==
    /\ pc = "convert"
    /\ ~HasRaw(vision_outputs[idx])
    /\ UNCHANGED <<vision_outputs, log>>
    /\ ConvertAdvance
    /\ UNCHANGED <<task_plan, condensed_elements, input, prev, planVars, agentVars>>

Convert(texts) ==
    /\ pc = "convert"
    /\ HasRaw(vision_outputs[idx])
    /\ \E content \in texts :
           /\ log' = Append(log, Call("convert",
                                      messages("convert", vision_outputs[idx], Get(task_plan)).system,
                                      idx,
                                      messages("convert", vision_outputs[idx], Get(task_plan)).user,
                                      FALSE, content))
           /\ vision_outputs' =
                  [vision_outputs EXCEPT ![idx].detected =
                      convert_response(vision_outputs[idx].detected, content)]
    /\ ConvertAdvance
    /\ UNCHANGED <<task_plan, condensed_elements, input, prev, planVars, agentVars>>

ConvertCall == Convert(ConvertTexts)

ConvertCallAgain == Convert(RerunTexts)

ConvertRaise ==
    /\ pc = "convert"
    /\ HasRaw(vision_outputs[idx])
    /\ log' = Append(log, Call("convert",
                               messages("convert", vision_outputs[idx], Get(task_plan)).system,
                               idx,
                               messages("convert", vision_outputs[idx], Get(task_plan)).user,
                               TRUE, <<>>))
    /\ pc' = "returned"
    /\ outcome' = Some(Return(except_return(vision_outputs), Len(log')))
    /\ UNCHANGED <<vision_outputs, task_plan, idx, condensed_elements, input,
                   prev, planVars, agentVars>>

(***************************************************************************)
(* Specifications: Spec is one invocation of the grounding pipeline,       *)
(* SpecPlan the plan builder and the data model's encoding, SpecRerun the  *)
(* grounding pipeline invoked repeatedly, SpecShot the screenshot function *)
(* followed by the grounding pipeline, SpecMock the mock screenshot agents.*)
(***************************************************************************)
InitPlanVars ==
    planRun = None /\ decoded = None /\ roundtrip = None /\ grounded = None

InitPipeVars(lists) ==
    /\ vision_outputs \in lists
    /\ task_plan = None
    /\ pc = "idle"
    /\ idx = 0
    /\ condensed_elements = <<>>
    /\ log = <<>>
    /\ input = vision_outputs
    /\ outcome = None
    /\ prev = None

InitAgentVars ==
    /\ captures = <<>>
    /\ current_context = [a \in MockAgents |-> NotCreated]
    /\ mock_log = <<>>

Init == InitPlanVars /\ InitPipeVars(ShotLists) /\ InitAgentVars

Next ==
    \/ Invoke
    \/ CondenseSkip
    \/ CondenseCall
    \/ CondenseRaise
    \/ ConvertSkip
    \/ ConvertCall
    \/ ConvertRaise

Spec == Init /\ [][Next]_vars

InitPlan == InitPlanVars /\ InitPipeVars({<<>>}) /\ InitAgentVars

NextPlan ==
    \/ Planner
    \/ ValidateJson
    \/ RoundTrip
    \/ ConvertResponse

SpecPlan == InitPlan /\ [][NextPlan]_vars

\* process_outputs invoked any number of times on the same list.
InitRerun == InitPlanVars /\ InitPipeVars(RerunLists) /\ InitAgentVars

NextRerun ==
    \/ Invoke
    \/ Reinvoke
    \/ CondenseSkip
    \/ CondenseCall
    \/ CondenseRaise
    \/ ConvertSkip
    \/ ConvertCallAgain
    \/ ConvertRaise

SpecRerun == InitRerun /\ [][NextRerun]_vars

\* screenshot_fn called some times, then process_outputs on its results.
NextShot ==
    \/ Screenshot
    \/ Invoke
    \/ CondenseSkip
    \/ CondenseCall
    \/ CondenseRaise
    \/ ConvertSkip
    \/ ConvertCallAgain
    \/ ConvertRaise

SpecShot == InitPlan /\ [][NextShot]_vars

\* The mock screenshot agents.
NextMock ==
    \/ CreateAgent
    \/ MockScreenshot

SpecMock == InitPlan /\ [][NextMock]_vars


(***************************************************************************)
(* Properties of the plan builder (checked under SpecPlan).                *)
(***************************************************************************)
Ran == planRun # None
Run == Get(planRun)

\* A goal that is empty or made of whitespace only.
Blank(goal) == \A i \in 1..Len(goal) : goal[i] \in Whitespace

RaisedWith(result, type, text) ==
    /\ result.returned = None
    /\ IsSome(result.raised)
    /\ Get(result.raised).type = type
    /\ Get(result.raised).msg[1] = text

\* C1: for every goal that is empty or whitespace-only the planner fails
\* with the input error ValueError("Goal cannot be empty") and has made no
\* call to the completion collaborator.
C1_BlankGoalRejected ==
    (Ran /\ Blank(Run.goal)) =>
        /\ RaisedWith(Run.result, "ValueError", "Goal cannot be empty")
        /\ Run.result.calls = 0

C1_Witness ==
    /\ Ran
    /\ Run.goal = <<" ", " ">>
    /\ ~Run.complete.raises
    /\ RaisedWith(Run.result, "ValueError", "Goal cannot be empty")

PlanValidationError(result) ==
    RaisedWith(result, "ValueError", "Failed to parse GPT response into TaskPlan")

PlanGenerationError(result) ==
    RaisedWith(result, "RuntimeError", "Failed to generate task plan")

\* C2: for every non-empty goal one invocation ends in exactly one of
\* three outcomes, a returned TaskPlan, a plan-validation error or a
\* plan-generation error; no other kind of error reaches the caller.
C2_OnlyTypedOutcomes ==
    (Ran /\ ~Blank(Run.goal)) =>
        \/ IsSome(Run.result.returned) /\ Run.result.raised = None
        \/ PlanValidationError(Run.result)
        \/ PlanGenerationError(Run.result)

\* C3: a response that fails to parse or validate surfaces as a
\* plan-validation error, a failure of the collaborator call as a
\* plan-generation error, and the caller can tell the two apart.
C3_ValidationAndGenerationErrors ==
    (Ran /\ ~Blank(Run.goal)) =>
        /\ (~Run.complete.raises /\ ~TaskPlan_valid(Run.complete.content)) =>
               (PlanValidationError(Run.result) /\ ~PlanGenerationError(Run.result))
        /\ Run.complete.raises =>
               (PlanGenerationError(Run.result) /\ ~PlanValidationError(Run.result))

\* The plans produced from a collaborator response: the one the planner
\* returned, and the one TaskPlan.model_validate_json yields, which is the
\* value the planner's `return` hands back unchanged.
ProducedPlans ==
    (IF Ran /\ IsSome(Run.result.returned) THEN {Get(Run.result.returned)} ELSE {})
    \cup (IF decoded # None /\ IsSome(Get(decoded).plan)
          THEN {Get(Get(decoded).plan)} ELSE {})

TaskIds(plan) == {plan.tasks[i].task_id : i \in 1..Len(plan.tasks)}

C19_RetryCountBounded ==
    \A plan \in ProducedPlans :
        \A i \in 1..Len(plan.tasks) : \A j \in 1..Len(plan.tasks[i].actions) :
            plan.tasks[i].actions[j].validation_result.retry_count
                <= plan.tasks[i].actions[j].validation_result.max_retries

\* The values of the closed vocabularies, as the wire carries them.
ActionValues == UNION {Values(EnumNamed(ActionType[k])) : k \in 1..Len(ActionType)}

\* A plan document naming an action type, element type or validation
\* status outside the vocabularies.
OutOfVocabularyPlan(w) ==
    \/ IsSome(w.status) /\ Get(w.status) \notin Values(ValidationStatus)
    \/ \E i \in 1..Len(w.tasks) :
          \/ /\ IsSome(w.tasks[i].validation_status)
             /\ Get(w.tasks[i].validation_status) \notin Values(ValidationStatus)
          \/ \E j \in 1..Len(w.tasks[i].actions) :
                LET a == w.tasks[i].actions[j]
                IN \/ a.action_type \notin ActionValues
                   \/ a.element_type \notin Values(UIElementType)
                   \/ /\ IsSome(a.validation_result)
                      /\ Get(a.validation_result).status \notin Values(ValidationStatus)

\* Stage B responses with an entry outside the vocabularies: element type
\* "generic", action "enter".
OutOfVocabularyTexts == { <<"bad_type">>, <<"bad_action">> }

\* C20: an action type, element type or validation status outside the
\* closed vocabularies is a validation failure: a plan response carrying
\* one yields no plan, from validation or from the planner, and a Stage B
\* response carrying one attaches nothing to the screenshot.
C20_OutOfVocabularyRejected ==
    /\ (decoded # None /\ OutOfVocabularyPlan(Get(decoded).doc)) =>
           Get(decoded).plan = None
    /\ (Ran /\ ~Run.complete.raises /\ OutOfVocabularyPlan(Run.complete.content)) =>
           Run.result.returned = None
    /\ (grounded # None /\ Get(grounded).content \in OutOfVocabularyTexts) =>
           Get(grounded).result = Get(grounded).detected

C20_Witness ==
    /\ decoded # None
    /\ Len(Get(decoded).doc.tasks) = 2
    /\ Get(decoded).doc.tasks[1].actions[1].action_type = "enter"
    /\ Get(decoded).doc.tasks[1].actions[1].element_type = "window"
    /\ Get(decoded).doc.tasks[1].actions[1].validation_result = None
    /\ Get(decoded).plan = None

Returned == Get(Get(outcome).returned)

\* C8: in every outcome of an invocation (all screenshots grounded, some
\* Stage B response unparsable, a collaborator call raising) the returned
\* list has exactly one entry per input screenshot, in the input order.
C8_OneResultPerScreenshot ==
    outcome # None =>
        /\ Len(Returned) = Len(input)
        /\ \A i \in 1..Len(input) : Returned[i].metadata = input[i].metadata

C8_Witness ==
    /\ outcome # None
    /\ Len(input) = 2
    /\ Len(log) = 4
    /\ log[3].stage = "convert" /\ log[3].shot = 1
    /\ log[3].reply = <<"Here is the JSON:", NL, "one">>
    /\ log[4].stage = "convert" /\ log[4].shot = 2 /\ log[4].raises
    /\ Returned[2].metadata.path = 2

\* A screenshot whose raw_output is absent or empty.
NoRawText(shot) ==
    shot.detected.raw_output = None \/ shot.detected.raw_output = Some("")

\* Stage B responses that carry a well-formed document of valid entries,
\* with the element types their entries name, in order.
GroundedAs(text) ==
    CASE text = <<"two">> -> <<"search_bar", "window">>
      [] text = <<FENCE, "json", NL, "two", NL, FENCE>> -> <<"search_bar", "window">>
      [] text = <<"one">> -> <<"button">>
      [] text = <<FENCE, NL, "one", NL, FENCE>> -> <<"button">>

GoodTexts ==
    { <<"two">>, <<FENCE, "json", NL, "two", NL, FENCE>>, <<"one">>,
      <<FENCE, NL, "one", NL, FENCE>> }

PopulatedFrom(detected, text) ==
    /\ detected.total_count = Len(GroundedAs(text))
    /\ [i \in 1..Len(detected.elements) |->
           ValueOf(detected.elements[i].element.element_type)] = GroundedAs(text)

\* C9: a screenshot whose raw_output is absent or empty causes no
\* collaborator call in either stage and keeps its elements, total_count
\* and highest_confidence, while a screenshot of the same batch that has
\* raw text is populated from its Stage B response (a well-formed document
\* of valid entries).
C9_NoRawTextPassThrough ==
    /\ \A k \in 1..Len(log) : ~NoRawText(input[log[k].shot])
    /\ \A i \in 1..Len(input) :
           NoRawText(input[i]) => vision_outputs[i].detected = input[i].detected
    /\ \A k \in 1..Len(log) :
           (log[k].stage = "convert" /\ ~log[k].raises /\ log[k].reply \in GoodTexts)
               => PopulatedFrom(vision_outputs[log[k].shot].detected, log[k].reply)

C9_Witness ==
    /\ pc = "returned"
    /\ Len(input) = 2
    /\ input[1].detected.raw_output = Some("")
    /\ input[1].detected.total_count = 1
    /\ vision_outputs[1].detected = input[1].detected
    /\ Len(log) = 2
    /\ log[2].stage = "convert" /\ log[2].shot = 2 /\ log[2].reply = <<"two">>
    /\ vision_outputs[2].detected.total_count = 2
    /\ vision_outputs[2].detected.highest_confidence = 9

\* The entries of a document that resolve, as elements, in order.
ResolvedEntries(doc) ==
    LET ok == SelectSeq(doc.elements, DetectedElement_valid)
    IN [i \in 1..Len(ok) |-> DetectedElement(ok[i])]

\* C10: when an entry of a Stage B "elements" list fails to resolve, only
\* that entry is skipped; the valid entries of the same screenshot are
\* attached to it.
C10_OnlyBadEntrySkipped ==
    \A k \in 1..Len(log) :
        (log[k].stage = "convert" /\ ~log[k].raises) =>
            LET parsed == json_loads(strip_fence(log[k].reply))
            IN (IsSome(parsed) /\ Get(parsed).isdict /\ Get(parsed).haskey
                    /\ Get(parsed).islist) =>
                   vision_outputs[log[k].shot].detected.elements
                       = ResolvedEntries(Get(parsed))

\* A completed Stage B call: the collaborator answered.
Converted(k) == log[k].stage = "convert" /\ ~log[k].raises

NoCallRaised == \A j \in 1..Len(log) : ~log[j].raises

\* Stage B responses whose top-level document is unusable: a JSON array, an
\* object without "elements", prose before the document.
UnusableTexts ==
    { <<"array">>, <<"no_elements_key">>, <<"Here is the JSON:", NL, "one">> }

\* C11: when the top-level Stage B document of a screenshot is unusable
\* (not JSON, not an object, no "elements" key) the screenshot's elements,
\* total_count, highest_confidence and raw_output are what they were before
\* the call, and the later screenshots of the batch that have raw text still
\* get their Stage B call.
C11_UnusableDocumentLeavesScreenshot ==
    \A k \in 1..Len(log) :
        (Converted(k) /\ log[k].reply \in UnusableTexts) =>
            /\ vision_outputs[log[k].shot].detected = input[log[k].shot].detected
            /\ (pc = "returned" /\ NoCallRaised) =>
                   \A i \in (log[k].shot + 1)..Len(input) :
                       HasRaw(input[i]) =>
                           \E j \in (k + 1)..Len(log) : Converted(j) /\ log[j].shot = i

C11_Witness ==
    /\ pc = "returned"
    /\ Len(input) = 2
    /\ input[1].detected.total_count = 1
    /\ Len(log) = 4
    /\ Converted(3) /\ log[3].shot = 1 /\ log[3].reply = <<"array">>
    /\ Converted(4) /\ log[4].shot = 2 /\ log[4].reply = <<"two">>
    /\ vision_outputs[1].detected = input[1].detected
    /\ vision_outputs[2].detected.total_count = 2

\* A JSON document enclosed in a fenced code block: an opening fence, an
\* optional language tag, the document, a closing fence.
FencedDocument(text) ==
    /\ Len(text) >= 3
    /\ text[1] = FENCE /\ text[Len(text)] = FENCE
    /\ Cardinality({i \in 1..Len(text) : text[i] \in JsonDocNames}) = 1
    /\ \A i \in 2..(Len(text) - 1) :
           text[i] \in JsonDocNames \cup JsonWhitespace \cup {"json"}

Enclosed(text) ==
    text[CHOOSE i \in 1..Len(text) : text[i] \in JsonDocNames]

\* C12: for every Stage B response that is a JSON document in a fenced
\* code block (with or without a language tag, the fences on their own
\* lines or not) the text handed to JSON parsing is exactly the enclosed
\* document.
C12_FenceStripped ==
    \A k \in 1..Len(log) :
        (Converted(k) /\ FencedDocument(log[k].reply)) =>
            strip_fence(log[k].reply) = <<Enclosed(log[k].reply)>>

\* The highest confidence among the entries of a usable response, 0.0 for
\* an empty "elements" list.
ExpectedHighest(text) ==
    CASE text = <<"empty">> -> 0
      [] text \in {<<"one">>, <<FENCE, NL, "one", NL, FENCE>>} -> 8
      [] OTHER -> 9

\* C14: after the aggregation step for a screenshot highest_confidence is
\* the maximum confidence over the newly attached elements, and 0.0 when
\* the new list is empty, also on a screenshot that already held elements.
C14_HighestConfidenceIsMax ==
    \A k \in 1..Len(log) :
        (Converted(k) /\ log[k].reply \in GoodTexts \cup {<<"empty">>}) =>
            vision_outputs[log[k].shot].detected.highest_confidence
                = ExpectedHighest(log[k].reply)

\* The completed Stage B calls for screenshot i.
ConvertedFor(i) == {k \in 1..Len(log) : Converted(k) /\ log[k].shot = i}

\* C16: a collaborator call that raises for one screenshot, in Stage A or
\* in Stage B, does not keep any other screenshot that has raw text from
\* being grounded: when the invocation has ended, each of them has had its
\* Stage B call answered.
C16_OthersStillGrounded ==
    pc = "returned" =>
        \A i \in 1..Len(input) :
            ( /\ HasRaw(input[i])
              /\ \A k \in 1..Len(log) : log[k].raises => log[k].shot # i ) =>
                ConvertedFor(i) # {}

\* C17: a collaborator failure raised during an invocation reaches the
\* caller as a failure (the invocation does not return normally), and the
\* failed call is the last call: it is not made again.
C17_FailurePropagates ==
    /\ (outcome # None /\ ~NoCallRaised) => IsSome(Get(outcome).raised)
    /\ \A k \in 1..Len(log) : log[k].raises => k = Len(log)

\* An invocation in which something failed: a collaborator call raised, or
\* a Stage B response could not be used.
SomethingFailed ==
    \/ ~NoCallRaised
    \/ \E k \in 1..Len(log) : Converted(k) /\ log[k].reply \notin GoodTexts

\* C18: when a failure occurs during an invocation, every screenshot that
\* was populated before it, by an earlier Stage B call of the invocation or
\* before the invocation began, has these elements, total_count and
\* highest_confidence in the returned list.
C18_PopulatedBeforeFailureKept ==
    (outcome # None /\ SomethingFailed) =>
        /\ \A k \in 1..Len(log) :
               (Converted(k) /\ log[k].reply \in GoodTexts) =>
                   /\ PopulatedFrom(Returned[log[k].shot].detected, log[k].reply)
                   /\ Returned[log[k].shot].detected.highest_confidence
                          = ExpectedHighest(log[k].reply)
        /\ \A i \in 1..Len(input) :
               ConvertedFor(i) = {} => Returned[i].detected = input[i].detected

C18_Witness ==
    /\ outcome # None
    /\ Len(input) = 2
    /\ Len(log) = 4
    /\ Converted(3) /\ log[3].shot = 1 /\ log[3].reply = <<"two">>
    /\ log[4].stage = "convert" /\ log[4].shot = 2 /\ log[4].raises
    /\ Returned[1].detected.total_count = 2
    /\ Returned[1].detected.highest_confidence = 9
    /\ Returned[2].detected.total_count = 1

\* C21: every DetectedElement attached to a screenshot has confidence
\* within [0, 1] (0..10 in tenths); an entry outside the range is not
\* attached.
C21_ConfidenceInUnitInterval ==
    \A i \in 1..Len(vision_outputs) :
        \A j \in 1..Len(vision_outputs[i].detected.elements) :
            /\ vision_outputs[i].detected.elements[j].confidence >= 0
            /\ vision_outputs[i].detected.elements[j].confidence <= 10

\* C25: the content submitted in a screenshot's Stage B (convert) call is
\* the condensed itemization that the same screenshot's Stage A (condense)
\* call returned.
C25_StageBGetsCondensed ==
    \A k \in 1..Len(log) :
        log[k].stage = "convert" =>
            \E j \in 1..(k - 1) :
                /\ log[j].stage = "condense" /\ ~log[j].raises
                /\ log[j].shot = log[k].shot
                /\ log[j].reply = <<log[k].user>>

\* C26: screenshots go through both stages one at a time: the Stage B call
\* of a screenshot is issued before the Stage A call of any later one.
C26_StagesPerScreenshot ==
    \A a \in 1..Len(log) : \A b \in 1..Len(log) :
        ( /\ log[a].stage = "condense"
          /\ log[b].stage = "convert"
          /\ log[b].shot < log[a].shot ) => b < a

\* C28: in every outcome and at every point of an invocation the metadata,
\* raw_output, validation_status and analysis_complete of every screenshot
\* are those of the input; a screenshot without raw text has no field
\* written at all.
C28_OnlyAggregatesWritten ==
    /\ Len(vision_outputs) = Len(input)
    /\ \A i \in 1..Len(input) :
           /\ vision_outputs[i].metadata = input[i].metadata
           /\ vision_outputs[i].detected.raw_output = input[i].detected.raw_output
           /\ vision_outputs[i].validation_status = input[i].validation_status
           /\ vision_outputs[i].analysis_complete = input[i].analysis_complete
           /\ ~HasRaw(input[i]) => vision_outputs[i] = input[i]

C28_Witness ==
    /\ pc = "returned"
    /\ Len(input) = 2
    /\ input[2].detected.raw_output = None
    /\ Len(log) = 2 /\ Converted(2) /\ log[2].shot = 1 /\ log[2].reply = <<"two">>
    /\ input[1].detected.total_count = 0
    /\ vision_outputs[1].detected.total_count = 2
    /\ vision_outputs[1].detected.raw_output = Some("A window with a search box")
    /\ vision_outputs[1].analysis_complete = FALSE

\* A Stage B response whose entries are complete and use only target
\* values of the mapping table.
FollowsTable(text) ==
    /\ Len(text) = 1 /\ text[1] \in JsonDocNames
    /\ LET doc == JsonDoc(text[1])
       IN /\ doc.isdict /\ doc.haskey /\ doc.islist
          /\ \A i \in 1..Len(doc.elements) :
                LET e == doc.elements[i]
                IN /\ IsSome(e.element) /\ IsSome(e.confidence)
                   /\ IsSome(e.possible_actions) /\ IsSome(e.bounding_box)
                   /\ Get(e.element).element_type \in CONVERT_PROMPT_element_rules
                   /\ Range(Get(e.possible_actions)) \subseteq CONVERT_PROMPT_action_rules

\* C27: every target value of the Stage B mapping table sent with a convert
\* call is a member of UIElementType, MouseAction or KeyboardAction, and
\* the entries of a response that follows the table are all attached.
C27_MappingTableResolves ==
    \A k \in 1..Len(log) :
        log[k].stage = "convert" =>
            /\ CONVERT_PROMPT_element_rules \subseteq Values(UIElementType)
            /\ CONVERT_PROMPT_action_rules
                   \subseteq Values(MouseAction) \cup Values(KeyboardAction)
            /\ (Converted(k) /\ FollowsTable(log[k].reply)) =>
                   Len(vision_outputs[log[k].shot].detected.elements)
                       = Len(JsonDoc(log[k].reply[1]).elements)

\* C29: the task plan has no influence on an invocation: every request
\* sent is the request any other task plan would have sent, and every
\* screenshot's result is determined by the screenshot and the response to
\* its Stage B call alone.
C29_TaskPlanIgnored ==
    /\ \A k \in 1..Len(log) : \A plan \in PipelinePlans :
           messages(log[k].stage, input[log[k].shot], plan)
               = [system |-> log[k].system, user |-> log[k].user]
    /\ \A i \in 1..Len(input) :
           vision_outputs[i].detected =
               IF ConvertedFor(i) = {} THEN input[i].detected
               ELSE convert_response(input[i].detected,
                                     log[CHOOSE k \in ConvertedFor(i) : TRUE].reply)

C29_Witness ==
    /\ pc = "returned"
    /\ task_plan = Some(TaskPlan(PlanDoc("type", "window", None, None,
                                         <<"launch_chrome">>, None, None)))
    /\ Len(input) = 1
    /\ Len(log) = 2 /\ Converted(2) /\ log[2].reply = <<"one">>
    /\ log[1].user = "A window with a search box"
    /\ vision_outputs[1].detected.total_count = 1

(***************************************************************************)
(* Properties of repeated invocations (checked under SpecRerun).           *)
(***************************************************************************)
\* C13: total_count = len(elements) holds for every screenshot of the input
\* and holds for every screenshot at every point of every later invocation,
\* also when a Stage B response fails part-way (unresolvable entry, max()
\* of an empty list).
C13_TotalCountIsLength ==
    \A i \in 1..Len(vision_outputs) :
        vision_outputs[i].detected.total_count
            = Len(vision_outputs[i].detected.elements)

C13_Witness ==
    /\ prev # None
    /\ pc = "returned"
    /\ Len(input) = 1
    /\ input[1].detected.total_count = 2
    /\ Len(log) = 2 /\ Converted(2) /\ log[2].reply = <<"empty">>
    /\ vision_outputs[1].detected.total_count = 0
    /\ vision_outputs[1].detected.elements = <<>>

\* C15: a second invocation that gets, for a screenshot, the Stage B
\* response the invocation before it got, leaves the screenshot's elements,
\* total_count and highest_confidence as the first left them; the elements
\* of a usable response are attached once, not appended.
C15_SecondRunIdempotent ==
    prev # None =>
        \A k \in 1..Len(log) : \A j \in 1..Len(Get(prev)) :
            ( /\ Converted(k)
              /\ Get(prev)[j].stage = "convert" /\ ~Get(prev)[j].raises
              /\ Get(prev)[j].shot = log[k].shot
              /\ Get(prev)[j].reply = log[k].reply ) =>
                /\ vision_outputs[log[k].shot].detected = input[log[k].shot].detected
                /\ log[k].reply \in GoodTexts =>
                       Len(vision_outputs[log[k].shot].detected.elements)
                           = Len(GroundedAs(log[k].reply))

C15_Witness ==
    /\ prev # None
    /\ pc = "returned"
    /\ Len(input) = 1
    /\ Len(Get(prev)) = 2 /\ Get(prev)[2].reply = <<"two">> /\ ~Get(prev)[2].raises
    /\ Len(log) = 2 /\ Converted(2) /\ log[2].reply = <<"two">>
    /\ vision_outputs[1].detected.total_count = 2
    /\ vision_outputs[1].detected.highest_confidence = 9

(***************************************************************************)
(* Properties of the screenshot function (checked under SpecShot) and of   *)
(* the mock screenshot agents (checked under SpecMock).                    *)
(***************************************************************************)
\* C23: every ScreenshotResult returned by the screenshot function, with
\* vision enabled or disabled, has analysis_complete = true.
C23_AnalysisComplete ==
    \A c \in 1..Len(captures) :
        IsSome(captures[c].result.returned) =>
            Get(captures[c].result.returned).analysis_complete = TRUE

\* A call in which element detection failed: the image could be opened by
\* screenshot_fn, and reading it for the collaborator or the collaborator
\* call raised.
DetectionFailed(c) ==
    /\ captures[c].env.use_vision /\ captures[c].env.opens
    /\ ~captures[c].env.reads \/ captures[c].env.response.raises

\* C30: when the image read or the vision collaborator call fails inside
\* element detection, screenshot_fn returns a ScreenshotResult with no
\* elements, total_count 0, highest_confidence 0.0 and no raw_output, and
\* the grounding pipeline makes no collaborator call for that screenshot
\* and leaves it empty.
C30_DetectionFailureYieldsEmpty ==
    \A c \in 1..Len(captures) :
        DetectionFailed(c) =>
            /\ captures[c].result.raised = None
            /\ IsSome(captures[c].result.returned)
            /\ Get(captures[c].result.returned).detected
                   = [elements |-> <<>>, total_count |-> 0,
                      highest_confidence |-> 0, raw_output |-> None]
            /\ \A k \in 1..Len(log) : log[k].shot # captures[c].slot
            /\ vision_outputs[captures[c].slot].detected
                   = Get(captures[c].result.returned).detected

C30_Witness ==
    /\ pc = "returned"
    /\ Len(captures) = 2
    /\ DetectionFailed(1) /\ captures[1].env.reads /\ captures[1].slot = 1
    /\ ~captures[2].env.response.raises /\ captures[2].slot = 2
    /\ Len(log) = 2 /\ Converted(2) /\ log[2].shot = 2 /\ log[2].reply = <<"two">>
    /\ vision_outputs[1].detected.elements = <<>>
    /\ vision_outputs[2].detected.total_count = 2

\* The contexts an agent has returned, in call order.
ReturnedTo(a) ==
    LET calls == SelectSeq(mock_log, LAMBDA c : c.agent = a)
    IN [n \in 1..Len(calls) |-> calls[n].context]

\* C24: the n-th call of each mock agent returns context number
\* (n-1) mod 3 of vscode, desktop, chrome, whatever calls were made on the
\* other agents.
C24_MockSequenceWraps ==
    \A a \in MockAgents :
        \A n \in 1..Len(ReturnedTo(a)) :
            ReturnedTo(a)[n] = <<"vscode", "desktop", "chrome">>[((n - 1) % 3) + 1]

C24_Witness ==
    /\ Len(mock_log) = 6
    /\ ReturnedTo("first") = <<"vscode", "desktop", "chrome", "vscode">>
    /\ ReturnedTo("second") = <<"vscode", "desktop">>
    /\ mock_log[2].agent = "second"
    /\ mock_log[6].agent = "first"


====
